---- MODULE Spec2Model ----
(***************************************************************************)
(* Model of "TASK-1/ATM MACHINE SIMULATION.py": the Account ledger, the    *)
(* ATM registry and the menu loop ATM.run that drives them.                *)
(*                                                                         *)
(* Numbers.  The program computes with Python numbers; the shell passes    *)
(* float(input).  The model draws amounts and opening balances from        *)
(* integers, on which float addition, subtraction and comparison are exact *)
(* (below 2^53).  Fractional amounts (rounding) and the special values     *)
(* inf / nan that float() also accepts lie outside the modelled inputs.    *)
(***************************************************************************)
EXTENDS Integers, Sequences, FiniteSets, TLC

(***************************************************************************)
(* Bounds of the model.                                                    *)
(***************************************************************************)
MaxAmount == 2    \* amounts typed at a prompt are Unit, 2*Unit, ..., MaxAmount*Unit
MaxOps    == 2    \* at most this many successful deposits, withdrawals and
                  \* transfers are explored

\* The smallest seeded balance; typed amounts are its multiples, so that an
\* amount below, equal to and above a balance are all typed.
Unit == 500

None == "None"                   \* Python's None, as access_account returns it

\* Identifiers typed at a prompt: two seeded accounts and an unknown one.
UserIds == {"SHARATH", "atmuser2", "ghost"}

\* PINs typed at a prompt: the seeded PINs of those two accounts.
Pins == {"1188", "1112"}

\* What can be typed at one "Enter amount" prompt: text that float() rejects,
\* or a number (negative, zero or positive).
AmountInputs ==
    {[numeric |-> FALSE, value |-> 0]} \cup
    {[numeric |-> TRUE, value |-> k * Unit] : k \in (-1)..MaxAmount}

\* What is typed during one call of get_amount: at most one rejected input,
\* then possibly an accepted one.
Typed ==
    {<<>>} \cup {<<i>> : i \in AmountInputs}
           \cup {<<i, j>> : i \in {x \in AmountInputs : ~x.numeric \/ x.value <= 0},
                            j \in AmountInputs}

VARIABLES
    accounts,   \* ATM.accounts: user_id -> Account object (its fields)
    created,    \* the (pin, balance) arguments each stored account was constructed with
    pc,         \* where run() is: "main" (main menu), "menu" (account menu), "done"
    account,    \* run(): the local `account` of the open session, or None
    last,       \* the last call made and what it returned / printed
    prev        \* ATM.accounts as it was when the last call started

vars == <<accounts, created, pc, account, last, prev>>

(***************************************************************************)
(* class Account                                                           *)
(***************************************************************************)

\* Account.__init__
Account(user_id, pin, balance) ==
    [user_id |-> user_id, pin |-> pin, balance |-> balance, transactions |-> <<>>]

\* f"{x:.2f}": the amount as shown, in hundredths.
Format2f(x) == x * 100

\* Account.check_pin
check_pin(self, pin) == self.pin = pin

change_pin_unchecked(self, old_pin, new_pin) ==
    [self |-> [self EXCEPT !.pin = new_pin], msg |-> "PIN changed successfully."]

change_pin_logged(self, old_pin, new_pin) ==
    IF check_pin(self, old_pin)
    THEN [self |-> [self EXCEPT !.pin = new_pin,
                                !.transactions = Append(@, <<"PIN change", 0>>)],
          msg |-> "PIN changed successfully."]
    ELSE [self |-> self, msg |-> "Incorrect current PIN."]

\* Account.change_pin
change_pin(self, old_pin, new_pin) ==
    IF check_pin(self, old_pin)
    THEN [self |-> [self EXCEPT !.pin = new_pin], msg |-> "PIN changed successfully."]
    ELSE [self |-> self, msg |-> "Incorrect current PIN."]

deposit_unlogged(self, amount) ==
    LET new == [self EXCEPT !.balance = @ + amount]
    IN  [self |-> new, msg |-> "Deposit successful. New balance: $",
         shown |-> Format2f(new.balance)]

deposit_prepends(self, amount) ==
    LET new == [self EXCEPT !.balance = @ + amount,
                            !.transactions = <<(<<"Deposit", amount>>)>> \o @]
    IN  [self |-> new, msg |-> "Deposit successful. New balance: $",
         shown |-> Format2f(new.balance)]

\* Account.deposit
deposit(self, amount) ==
    LET new == [self EXCEPT !.balance = @ + amount,
                            !.transactions = Append(@, <<"Deposit", amount>>)]
    IN  [self |-> new, msg |-> "Deposit successful. New balance: $",
         shown |-> Format2f(new.balance)]

withdraw_inverted(self, amount) ==
    IF amount < self.balance
    THEN [self |-> self, msg |-> "Insufficient balance", shown |-> 0]
    ELSE LET new == [self EXCEPT !.balance = @ - amount,
                                 !.transactions = Append(@, <<"Withdraw", amount>>)]
         IN  [self |-> new, msg |-> "Withdrawal successful. New balance: $",
              shown |-> Format2f(new.balance)]

withdraw_strict(self, amount) ==
    IF amount >= self.balance
    THEN [self |-> self, msg |-> "Insufficient balance", shown |-> 0]
    ELSE LET new == [self EXCEPT !.balance = @ - amount,
                                 !.transactions = Append(@, <<"Withdraw", amount>>)]
         IN  [self |-> new, msg |-> "Withdrawal successful. New balance: $",
              shown |-> Format2f(new.balance)]

withdraw_sign_checked(self, amount) ==
    IF amount <= 0 \/ amount > self.balance
    THEN [self |-> self, msg |-> "Insufficient balance", shown |-> 0]
    ELSE LET new == [self EXCEPT !.balance = @ - amount,
                                 !.transactions = Append(@, <<"Withdraw", amount>>)]
         IN  [self |-> new, msg |-> "Withdrawal successful. New balance: $",
              shown |-> Format2f(new.balance)]

\* Account.withdraw
withdraw(self, amount) ==
    IF amount > self.balance
    THEN [self |-> self, msg |-> "Insufficient balance", shown |-> 0]
    ELSE LET new == [self EXCEPT !.balance = @ - amount,
                                 !.transactions = Append(@, <<"Withdraw", amount>>)]
         IN  [self |-> new, msg |-> "Withdrawal successful. New balance: $",
              shown |-> Format2f(new.balance)]

\* One line of the history: f"{t[0]}: ${t[1]:.2f}"
HistoryLine(t) == <<t[1], Format2f(t[2])>>

get_transaction_history_reversed(self) ==
    IF self.transactions # <<>>
    THEN [msg |-> "Transaction History:",
          lines |-> [i \in 1..Len(self.transactions) |->
                        HistoryLine(self.transactions[Len(self.transactions) + 1 - i])]]
    ELSE [msg |-> "No transactions available", lines |-> <<>>]

\* Account.get_transaction_history
get_transaction_history(self) ==
    IF self.transactions # <<>>
    THEN [msg |-> "Transaction History:",
          lines |-> [i \in 1..Len(self.transactions) |->
                        HistoryLine(self.transactions[i])]]
    ELSE [msg |-> "No transactions available", lines |-> <<>>]

transfer_no_credit(accts, self, target_account, amount) ==
    IF amount > accts[self].balance
    THEN [accounts |-> accts, msg |-> "Insufficient balance", shown |-> 0]
    ELSE LET a1 == [accts EXCEPT ![self] = withdraw(accts[self], amount).self]
             a3 == [a1 EXCEPT ![self].transactions = Append(@, <<"Transfer", amount>>)]
         IN  [accounts |-> a3, msg |-> "Transfer successful. New balance: $",
              shown |-> Format2f(a3[self].balance)]

transfer_single_entry(accts, self, target_account, amount) ==
    IF amount > accts[self].balance
    THEN [accounts |-> accts, msg |-> "Insufficient balance", shown |-> 0]
    ELSE LET a1 == [accts EXCEPT ![self].balance = @ - amount]
             a2 == [a1 EXCEPT ![target_account] = deposit(a1[target_account], amount).self]
             a3 == [a2 EXCEPT ![self].transactions = Append(@, <<"Transfer", amount>>)]
         IN  [accounts |-> a3, msg |-> "Transfer successful. New balance: $",
              shown |-> Format2f(a3[self].balance)]

transfer_unguarded(accts, self, target_account, amount) ==
    LET w  == withdraw(accts[self], amount)
        a1 == [accts EXCEPT ![self] = w.self]
        a2 == [a1 EXCEPT ![target_account] = deposit(a1[target_account], amount).self]
        a3 == [a2 EXCEPT ![self].transactions = Append(@, <<"Transfer", amount>>)]
    IN  IF w.msg = "Insufficient balance"
        THEN [accounts |-> a2, msg |-> "Insufficient balance", shown |-> 0]
        ELSE [accounts |-> a3, msg |-> "Transfer successful. New balance: $",
              shown |-> Format2f(a3[self].balance)]

transfer_logs_on_target(accts, self, target_account, amount) ==
    IF amount > accts[self].balance
    THEN [accounts |-> accts, msg |-> "Insufficient balance", shown |-> 0]
    ELSE LET a1 == [accts EXCEPT ![self] = withdraw(accts[self], amount).self]
             a2 == [a1 EXCEPT ![target_account] = deposit(a1[target_account], amount).self]
             a3 == [a2 EXCEPT ![target_account].transactions =
                                  Append(@, <<"Transfer", amount>>)]
         IN  [accounts |-> a3, msg |-> "Transfer successful. New balance: $",
              shown |-> Format2f(a3[self].balance)]

\* Account.transfer.  self and target_account are references into the registry
\* and may be the same object, so the three steps act on the registry in turn.
transfer(accts, self, target_account, amount) ==
    IF amount > accts[self].balance
    THEN [accounts |-> accts, msg |-> "Insufficient balance", shown |-> 0]
    ELSE LET a1 == [accts EXCEPT ![self] = withdraw(accts[self], amount).self]
             a2 == [a1 EXCEPT ![target_account] = deposit(a1[target_account], amount).self]
             a3 == [a2 EXCEPT ![self].transactions = Append(@, <<"Transfer", amount>>)]
         IN  [accounts |-> a3, msg |-> "Transfer successful. New balance: $",
              shown |-> Format2f(a3[self].balance)]

(***************************************************************************)
(* class ATM                                                               *)
(***************************************************************************)

\* self.accounts[user_id] = value
Store(accts, user_id, value) ==
    [u \in DOMAIN accts \cup {user_id} |-> IF u = user_id THEN value ELSE accts[u]]

create_account_keep_existing(accts, user_id, pin, balance) ==
    IF user_id \in DOMAIN accts
    THEN accts
    ELSE Store(accts, user_id, Account(user_id, pin, balance))

\* ATM.create_account
create_account(accts, user_id, pin, balance) ==
    Store(accts, user_id, Account(user_id, pin, balance))

access_account_any_pin(accts, user_id, pin) ==
    IF user_id \in DOMAIN accts THEN user_id ELSE None

\* ATM.access_account: the account (its key) or None
access_account(accts, user_id, pin) ==
    IF user_id \in DOMAIN accts /\ check_pin(accts[user_id], pin)
    THEN user_id
    ELSE None

RECURSIVE get_amount_nonneg(_)
get_amount_nonneg(typed) ==
    IF typed = <<>>
    THEN [returned |-> FALSE, amount |-> 0, printed |-> <<>>]
    ELSE LET inp == Head(typed)
         IN  IF inp.numeric /\ inp.value >= 0
             THEN [returned |-> TRUE, amount |-> inp.value, printed |-> <<>>]
             ELSE LET rest == get_amount_nonneg(Tail(typed))
                      msg == IF inp.numeric
                             THEN "Please enter a positive amount."
                             ELSE "Invalid input. Please enter a valid number."
                  IN  [rest EXCEPT !.printed = <<msg>> \o @]

\* ATM.get_amount on the inputs typed at its prompts, in order: every turn of
\* the loop reads one; a number > 0 is returned, anything else is answered with
\* a message and the next prompt.  With the inputs used up the call is still
\* at its prompt (returned = FALSE).
RECURSIVE get_amount(_)
get_amount(typed) ==
    IF typed = <<>>
    THEN [returned |-> FALSE, amount |-> 0, printed |-> <<>>]
    ELSE LET inp == Head(typed)
         IN  IF inp.numeric /\ inp.value > 0
             THEN [returned |-> TRUE, amount |-> inp.value, printed |-> <<>>]
             ELSE LET rest == get_amount(Tail(typed))
                      msg == IF inp.numeric
                             THEN "Please enter a positive amount."
                             ELSE "Invalid input. Please enter a valid number."
                  IN  [rest EXCEPT !.printed = <<msg>> \o @]

(***************************************************************************)
(* The record of the last call.                                            *)
(***************************************************************************)
NoCall ==
    [op |-> "none", user_id |-> None, target |-> None, amount |-> 0,
     pin |-> "", new_pin |-> "", msg |-> "", shown |-> 0, lines |-> <<>>,
     returned |-> None]

\* Number of entries of `kind` in a log.
RECURSIVE CountKind(_, _)
CountKind(log, kind) ==
    IF log = <<>> THEN 0
    ELSE (IF Head(log)[1] = kind THEN 1 ELSE 0) + CountKind(Tail(log), kind)

\* Number of successful deposit, withdraw and transfer calls behind the logs of
\* the accounts in S: a transfer logs three entries, one of them a Transfer.
RECURSIVE OpsLogged(_, _)
OpsLogged(accts, S) ==
    IF S = {} THEN 0
    ELSE LET u == CHOOSE x \in S : TRUE
             log == accts[u].transactions
         IN  Len(log) - 2 * CountKind(log, "Transfer") + OpsLogged(accts, S \ {u})

\* The bound: states beyond it are not explored.
WithinBounds(accts) == OpsLogged(accts, DOMAIN accts) <= MaxOps

(***************************************************************************)
(* Initial state: the module's script has built the ATM, seeded the four   *)
(* sample accounts and entered atm.run().                                  *)
(***************************************************************************)
SeededAccounts ==
    create_account(
        create_account(
            create_account(
                create_account(<<>>, "SHARATH", "1188", 1000),
                "atmuser1", "1111", 1500),
            "atmuser2", "1112", 500),
        "atmuser3", "1113", 2000)

Init ==
    /\ accounts = SeededAccounts
    /\ created = [u \in DOMAIN SeededAccounts |->
                     [pin |-> SeededAccounts[u].pin,
                      balance |-> SeededAccounts[u].balance]]
    /\ pc = "main"
    /\ account = None
    /\ last = NoCall
    /\ prev = SeededAccounts

(***************************************************************************)
(* Main menu of ATM.run                                                    *)
(***************************************************************************)
\* choice '1': access_account(); the account menu opens if it returns an account
MainAccess(user_id, pin) ==
    /\ pc = "main"
    /\ LET r == access_account(accounts, user_id, pin)
       IN  /\ account' = r
           /\ pc' = IF r # None THEN "menu" ELSE "main"
           /\ last' = [NoCall EXCEPT !.op = "access_account", !.user_id = user_id,
                                     !.pin = pin, !.returned = r,
                                     !.msg = IF r # None THEN "Access Granted!"
                                             ELSE "Invalid User ID or PIN. Please try again."]
    /\ prev' = accounts
    /\ UNCHANGED <<accounts, created>>

\* choice '2'
MainQuit ==
    /\ pc = "main"
    /\ pc' = "done"
    /\ prev' = accounts
    /\ last' = [NoCall EXCEPT !.op = "quit",
                              !.msg = "Thank you for using our ATM. Goodbye!"]
    /\ UNCHANGED <<accounts, created, account>>

\* any other choice
MainInvalid ==
    /\ pc = "main"
    /\ prev' = accounts
    /\ last' = [NoCall EXCEPT !.op = "invalid_choice",
                              !.msg = "Invalid choice. Please try again."]
    /\ UNCHANGED <<accounts, created, pc, account>>

(***************************************************************************)
(* Account menu of ATM.run                                                 *)
(***************************************************************************)
\* operation '1'
MenuHistory ==
    /\ pc = "menu"
    /\ LET r == get_transaction_history(accounts[account])
       IN  last' = [NoCall EXCEPT !.op = "get_transaction_history", !.user_id = account,
                                  !.msg = r.msg, !.lines = r.lines]
    /\ prev' = accounts
    /\ UNCHANGED <<accounts, created, pc, account>>

MenuTransferNotFound_prompts(target_id) ==
    /\ pc = "menu"
    /\ target_id \notin DOMAIN accounts
    /\ pc' = "amount_transfer"
    /\ prev' = accounts
    /\ last' = [NoCall EXCEPT !.op = "get_amount", !.user_id = account,
                              !.target = target_id]
    /\ UNCHANGED <<accounts, created, account>>

\* operation '4' with a target_id that is not in self.accounts
MenuTransferNotFound(target_id) ==
    /\ pc = "menu"
    /\ target_id \notin DOMAIN accounts
    /\ prev' = accounts
    /\ last' = [NoCall EXCEPT !.op = "target_not_found", !.user_id = account,
                              !.target = target_id,
                              !.msg = "Target account not found."]
    /\ UNCHANGED <<accounts, created, pc, account>>

\* operation '5'
MenuChangePin(old_pin, new_pin) ==
    /\ pc = "menu"
    /\ LET r == change_pin(accounts[account], old_pin, new_pin)
       IN  /\ accounts' = [accounts EXCEPT ![account] = r.self]
           /\ last' = [NoCall EXCEPT !.op = "change_pin", !.user_id = account,
                                     !.pin = old_pin, !.new_pin = new_pin,
                                     !.msg = r.msg]
    /\ prev' = accounts
    /\ UNCHANGED <<created, pc, account>>

MenuQuit_ends_process ==
    /\ pc = "menu"
    /\ pc' = "done"
    /\ prev' = accounts
    /\ last' = [NoCall EXCEPT !.op = "leave", !.user_id = account,
                              !.msg = "Returning to main menu..."]
    /\ UNCHANGED <<accounts, created, account>>

\* operation '6'
MenuQuit ==
    /\ pc = "menu"
    /\ pc' = "main"
    /\ prev' = accounts
    /\ last' = [NoCall EXCEPT !.op = "leave", !.user_id = account,
                              !.msg = "Returning to main menu..."]
    /\ UNCHANGED <<accounts, created, account>>

\* any other operation
MenuInvalid ==
    /\ pc = "menu"
    /\ prev' = accounts
    /\ last' = [NoCall EXCEPT !.op = "invalid_operation", !.user_id = account,
                              !.msg = "Invalid operation. Please choose a valid option."]
    /\ UNCHANGED <<accounts, created, pc, account>>

(***************************************************************************)
(* Operations '2', '3' and '4': get_amount, then the call.  The step is    *)
(* taken when get_amount returns; until then run() waits at the prompt.    *)
(***************************************************************************)
\* The amounts get_amount returns on the inputs that can be typed.
ReturnedAmounts ==
    {get_amount(typed).amount : typed \in {t \in Typed : get_amount(t).returned}}

\* operation '2': print(account.withdraw(amount))
MenuWithdraw(amount) ==
    /\ pc = "menu"
    /\ LET r == withdraw(accounts[account], amount)
       IN  /\ accounts' = [accounts EXCEPT ![account] = r.self]
           /\ last' = [NoCall EXCEPT !.op = "withdraw", !.user_id = account,
                                     !.amount = amount, !.msg = r.msg, !.shown = r.shown]
    /\ WithinBounds(accounts')
    /\ prev' = accounts
    /\ UNCHANGED <<created, pc, account>>

\* operation '3': print(account.deposit(amount))
MenuDeposit(amount) ==
    /\ pc = "menu"
    /\ LET r == deposit(accounts[account], amount)
       IN  /\ accounts' = [accounts EXCEPT ![account] = r.self]
           /\ last' = [NoCall EXCEPT !.op = "deposit", !.user_id = account,
                                     !.amount = amount, !.msg = r.msg, !.shown = r.shown]
    /\ WithinBounds(accounts')
    /\ prev' = accounts
    /\ UNCHANGED <<created, pc, account>>

MenuTransfer_swapped(target_id, amount) ==
    /\ pc = "menu"
    /\ target_id \in DOMAIN accounts
    /\ LET r == transfer(accounts, target_id, account, amount)
       IN  /\ accounts' = r.accounts
           /\ last' = [NoCall EXCEPT !.op = "transfer", !.user_id = account,
                                     !.target = target_id, !.amount = amount,
                                     !.msg = r.msg, !.shown = r.shown]
    /\ WithinBounds(accounts')
    /\ prev' = accounts
    /\ UNCHANGED <<created, pc, account>>

\* operation '4' with a target_id that is in self.accounts:
\* print(account.transfer(self.accounts[target_id], amount))
MenuTransfer(target_id, amount) ==
    /\ pc = "menu"
    /\ target_id \in DOMAIN accounts
    /\ LET r == transfer(accounts, account, target_id, amount)
       IN  /\ accounts' = r.accounts
           /\ last' = [NoCall EXCEPT !.op = "transfer", !.user_id = account,
                                     !.target = target_id, !.amount = amount,
                                     !.msg = r.msg, !.shown = r.shown]
    /\ WithinBounds(accounts')
    /\ prev' = accounts
    /\ UNCHANGED <<created, pc, account>>

Next ==
    \/ \E u \in UserIds, p \in Pins : MainAccess(u, p)
    \/ MainQuit
    \/ MainInvalid
    \/ MenuHistory
    \/ \E amount \in ReturnedAmounts : MenuWithdraw(amount)
    \/ \E amount \in ReturnedAmounts : MenuDeposit(amount)
    \/ \E t \in UserIds, amount \in ReturnedAmounts : MenuTransfer(t, amount)
    \/ \E t \in UserIds : MenuTransferNotFound(t)
    \/ \E o \in Pins, n \in Pins : MenuChangePin(o, n)
    \/ MenuQuit
    \/ MenuInvalid

Spec == Init /\ [][Next]_vars

(***************************************************************************)
(* Properties.  They are stated on the record of the last call (last), the *)
(* registry before it (prev) and the registry after it (accounts).         *)
(***************************************************************************)
Src == last.user_id
Tgt == last.target
X   == last.amount

\* Sum of the amounts of the entries of `kind` in a log.
RECURSIVE SumKind(_, _)
SumKind(log, kind) ==
    IF log = <<>> THEN 0
    ELSE (IF Head(log)[1] = kind THEN Head(log)[2] ELSE 0) + SumKind(Tail(log), kind)

\* Sum of the balances of the accounts in S.
RECURSIVE TotalBalance(_, _)
TotalBalance(accts, S) ==
    IF S = {} THEN 0
    ELSE LET u == CHOOSE x \in S : TRUE
         IN  accts[u].balance + TotalBalance(accts, S \ {u})

\* Every account but those in S is as it was before the last call.
OthersUnchanged(S) ==
    /\ DOMAIN accounts = DOMAIN prev
    /\ \A u \in DOMAIN accounts \ S : accounts[u] = prev[u]

\* C1: with the strictly positive amounts the menu passes, no account's balance
\* is ever negative.
C1_BalanceNonNegative ==
    \A u \in DOMAIN accounts : accounts[u].balance >= 0

\* C1 witness: a withdrawal or transfer has just taken an account's whole balance.
C1_Witness ==
    /\ last.op \in {"withdraw", "transfer"}
    /\ prev[Src].balance > 0
    /\ accounts[Src].balance = 0

\* C2 as stated: for ANY source A and target B (the same account included) a
\* transfer of x <= A.balance takes x from A, adds x to B, appends
\* (Withdraw, x), (Transfer, x) to A's log and only (Deposit, x) to B's log.
C2_TransferEffect_AsStated ==
    (last.op = "transfer" /\ X <= prev[Src].balance) =>
        /\ accounts[Src].balance = prev[Src].balance - X
        /\ accounts[Tgt].balance = prev[Tgt].balance + X
        /\ accounts[Src].transactions =
               prev[Src].transactions \o <<(<<"Withdraw", X>>), (<<"Transfer", X>>)>>
        /\ accounts[Tgt].transactions =
               prev[Tgt].transactions \o <<(<<"Deposit", X>>)>>

\* C2 amended: the stated effect holds when source and target are different
\* accounts; when they are the same account, its balance is unchanged and its
\* log gains (Withdraw, x), (Deposit, x), (Transfer, x) in this order.  In both
\* cases the call reports success with the source's new balance and no third
\* account changes.
C2_TransferEffect ==
    (last.op = "transfer" /\ X <= prev[Src].balance) =>
        /\ last.msg = "Transfer successful. New balance: $"
        /\ last.shown = Format2f(accounts[Src].balance)
        /\ OthersUnchanged({Src, Tgt})
        /\ Src # Tgt =>
              /\ accounts[Src].balance = prev[Src].balance - X
              /\ accounts[Tgt].balance = prev[Tgt].balance + X
              /\ accounts[Src].transactions =
                     prev[Src].transactions \o <<(<<"Withdraw", X>>), (<<"Transfer", X>>)>>
              /\ accounts[Tgt].transactions =
                     prev[Tgt].transactions \o <<(<<"Deposit", X>>)>>
        /\ Src = Tgt =>
              /\ accounts[Src].balance = prev[Src].balance
              /\ accounts[Src].transactions =
                     prev[Src].transactions \o
                        <<(<<"Withdraw", X>>), (<<"Deposit", X>>), (<<"Transfer", X>>)>>

\* C2 witness: a transfer between two different accounts has succeeded.
C2_Witness ==
    /\ last.op = "transfer"
    /\ X <= prev[Src].balance
    /\ Src # Tgt
    /\ Len(accounts[Tgt].transactions) > Len(prev[Tgt].transactions)

\* C3: conservation.  The sum of all balances of the registry is the same before
\* and after every transfer call, successful or not, whatever source and target.
C3_Conservation ==
    last.op = "transfer" =>
        /\ DOMAIN accounts = DOMAIN prev
        /\ TotalBalance(accounts, DOMAIN accounts) = TotalBalance(prev, DOMAIN prev)

\* C3 witness: a successful transfer has moved money to another account.
C3_Witness ==
    /\ last.op = "transfer"
    /\ Src # Tgt
    /\ accounts[Tgt].balance > prev[Tgt].balance

\* C4: withdraw(x) with x > balance and transfer(target, x) with x > the source's
\* balance report 'Insufficient balance' and leave the source's balance, log and
\* PIN unchanged; the transfer also leaves the target's balance and log unchanged.
C4_InsufficientBalance ==
    /\ (last.op = "withdraw" /\ X > prev[Src].balance) =>
          /\ last.msg = "Insufficient balance"
          /\ accounts[Src].balance = prev[Src].balance
          /\ accounts[Src].transactions = prev[Src].transactions
          /\ accounts[Src].pin = prev[Src].pin
    /\ (last.op = "transfer" /\ X > prev[Src].balance) =>
          /\ last.msg = "Insufficient balance"
          /\ accounts[Src].balance = prev[Src].balance
          /\ accounts[Src].transactions = prev[Src].transactions
          /\ accounts[Src].pin = prev[Src].pin
          /\ accounts[Tgt].balance = prev[Tgt].balance
          /\ accounts[Tgt].transactions = prev[Tgt].transactions

\* C4 witness: a transfer of more than the source's balance to another account
\* has been refused.
C4_Witness ==
    /\ last.op = "transfer"
    /\ X > prev[Src].balance
    /\ Src # Tgt

\* C5: withdraw(x) with 0 < x <= balance (x = balance included) takes exactly x
\* from the balance, appends exactly one (Withdraw, x) entry, reports success
\* and changes no other account.
C5_WithdrawEffect ==
    (last.op = "withdraw" /\ X <= prev[Src].balance) =>
        /\ accounts[Src].balance = prev[Src].balance - X
        /\ accounts[Src].transactions = Append(prev[Src].transactions, <<"Withdraw", X>>)
        /\ accounts[Src].pin = prev[Src].pin
        /\ accounts[Src].user_id = prev[Src].user_id
        /\ last.msg = "Withdrawal successful. New balance: $"
        /\ last.shown = Format2f(prev[Src].balance - X)
        /\ OthersUnchanged({Src})

\* C5 witness: a withdrawal of exactly the balance has been made.
C5_Witness ==
    /\ last.op = "withdraw"
    /\ X = prev[Src].balance

\* C6: deposit(x) with x > 0 adds exactly x to the balance, appends exactly one
\* (Deposit, x) entry at the end of the log, always succeeds and changes no
\* other account.
C6_DepositEffect ==
    last.op = "deposit" =>
        /\ X > 0
        /\ accounts[Src].balance = prev[Src].balance + X
        /\ accounts[Src].transactions = Append(prev[Src].transactions, <<"Deposit", X>>)
        /\ accounts[Src].pin = prev[Src].pin
        /\ accounts[Src].user_id = prev[Src].user_id
        /\ last.msg = "Deposit successful. New balance: $"
        /\ last.shown = Format2f(prev[Src].balance + X)
        /\ OthersUnchanged({Src})

\* C6 witness: a deposit has been made into an account that already has entries.
C6_Witness ==
    /\ last.op = "deposit"
    /\ prev[Src].transactions # <<>>

\* C7: change_pin(old, new) succeeds exactly when old is the current PIN; after
\* a success check_pin(new) is true and check_pin(old) is false unless
\* old = new; after a failure ('Incorrect current PIN.') PIN, balance and log
\* are unchanged.
C7_ChangePin ==
    last.op = "change_pin" =>
        /\ last.msg \in {"PIN changed successfully.", "Incorrect current PIN."}
        /\ (last.msg = "PIN changed successfully.") <=> (last.pin = prev[Src].pin)
        /\ last.msg = "PIN changed successfully." =>
              /\ check_pin(accounts[Src], last.new_pin)
              /\ last.pin # last.new_pin => ~check_pin(accounts[Src], last.pin)
        /\ last.msg = "Incorrect current PIN." =>
              /\ accounts[Src].pin = prev[Src].pin
              /\ accounts[Src].balance = prev[Src].balance
              /\ accounts[Src].transactions = prev[Src].transactions

\* C7 witness: a PIN has been changed to a different one.
C7_Witness ==
    /\ last.op = "change_pin"
    /\ last.msg = "PIN changed successfully."
    /\ last.pin # last.new_pin

\* C8: access_account returns the account stored under the typed identifier
\* exactly when the identifier is a key of the registry and the typed code is
\* that account's current PIN; an unknown identifier and a wrong code give the
\* same None outcome and message; no account state changes.
C8_Authentication ==
    last.op = "access_account" =>
        /\ accounts = prev
        /\ (last.returned # None) <=>
              (last.user_id \in DOMAIN accounts /\ accounts[last.user_id].pin = last.pin)
        /\ last.returned # None =>
              /\ last.returned = last.user_id
              /\ accounts[last.returned].user_id = last.user_id
              /\ account = last.returned /\ pc = "menu"
        /\ last.returned = None =>
              /\ last.msg = "Invalid User ID or PIN. Please try again."
              /\ pc = "main"

\* C8 witness: access has been granted with a PIN that is not the one the
\* account was created with (that is, after a PIN change).
C8_Witness ==
    /\ last.op = "access_account"
    /\ last.returned # None
    /\ last.pin # created[last.returned].pin

\* C9: get_transaction_history returns the 'No transactions available' sentinel
\* exactly when the log is empty; otherwise one line per entry, in log order;
\* it changes no state (so a second call in a row returns the same: it is a
\* step that changes nothing, its result being determined by the log).
C9_History ==
    last.op = "get_transaction_history" =>
        LET log == accounts[Src].transactions
        IN  /\ accounts = prev
            /\ (last.msg = "No transactions available") <=> (log = <<>>)
            /\ log = <<>> => last.lines = <<>>
            /\ log # <<>> =>
                  /\ last.msg = "Transaction History:"
                  /\ Len(last.lines) = Len(log)
                  /\ \A i \in 1..Len(log) :
                        last.lines[i] = <<log[i][1], Format2f(log[i][2])>>

\* C9 witness: the history of an account with at least two entries of different
\* kinds has been shown.
C9_Witness ==
    /\ last.op = "get_transaction_history"
    /\ Len(last.lines) >= 2
    /\ last.lines[1][1] # last.lines[2][1]

\* C10: ledger consistency.  Every balance is the opening balance plus the
\* Deposit entries minus the Withdraw entries of the account's log, and every
\* Transfer entry is preceded by a Withdraw entry of the same amount; also after
\* a transfer from an account to itself.
C10_LedgerConsistency ==
    \A u \in DOMAIN accounts :
        LET log == accounts[u].transactions
        IN  /\ accounts[u].balance =
                  created[u].balance + SumKind(log, "Deposit") - SumKind(log, "Withdraw")
            /\ \A i \in 1..Len(log) :
                  log[i][1] = "Transfer" =>
                      \E j \in 1..(i - 1) : log[j] = <<"Withdraw", log[i][2]>>

\* C10 witness: an account has transferred to itself and to another account.
C10_Witness ==
    /\ last.op = "transfer"
    /\ Src = Tgt
    /\ X <= prev[Src].balance
    /\ CountKind(accounts[Src].transactions, "Transfer") >= 2

\* s is a prefix of t.
IsPrefix(s, t) == Len(s) <= Len(t) /\ SubSeq(t, 1, Len(s)) = s

\* C11: the log is append-only.  Whatever the last call was, every account's log
\* before it is a prefix of its log after it; every entry's kind is Deposit,
\* Withdraw or Transfer; a refused call (insufficient balance, incorrect PIN)
\* and the calls that only read (access, history) append nothing.
C11_AppendOnly ==
    /\ DOMAIN accounts = DOMAIN prev
    /\ \A u \in DOMAIN accounts :
          /\ IsPrefix(prev[u].transactions, accounts[u].transactions)
          /\ \A i \in 1..Len(accounts[u].transactions) :
                accounts[u].transactions[i][1] \in {"Deposit", "Withdraw", "Transfer"}
    /\ (\/ last.msg \in {"Insufficient balance", "Incorrect current PIN."}
        \/ last.op \in {"change_pin", "access_account", "get_transaction_history"}) =>
          \A u \in DOMAIN accounts : accounts[u].transactions = prev[u].transactions

\* C11 witness: a transfer has appended to a source log and to a target log that
\* both had entries already.
C11_Witness ==
    /\ last.op = "transfer"
    /\ Src # Tgt
    /\ prev[Src].transactions # <<>>
    /\ prev[Tgt].transactions # <<>>
    /\ Len(accounts[Src].transactions) > Len(prev[Src].transactions)

\* C12: an account's PIN changes only by a successful change_pin on that account
\* (old PIN given, new PIN stored); identifiers never change and equal the key;
\* change_pin, successful or not, leaves every balance and log unchanged.
C12_PinAndIdFrame ==
    /\ DOMAIN accounts = DOMAIN prev
    /\ \A u \in DOMAIN accounts :
          /\ accounts[u].user_id = prev[u].user_id
          /\ accounts[u].user_id = u
          /\ accounts[u].pin # prev[u].pin =>
                /\ last.op = "change_pin"
                /\ last.msg = "PIN changed successfully."
                /\ u = Src
                /\ last.pin = prev[u].pin
                /\ accounts[u].pin = last.new_pin
    /\ last.op = "change_pin" =>
          \A u \in DOMAIN accounts :
              /\ accounts[u].balance = prev[u].balance
              /\ accounts[u].transactions = prev[u].transactions

\* C12 witness: a PIN has been changed on an account that has a balance history.
C12_Witness ==
    /\ last.op = "change_pin"
    /\ accounts[Src].pin # prev[Src].pin
    /\ accounts[Src].transactions # <<>>

(***************************************************************************)
(* The core called directly, without the menu: a registry built by         *)
(* create_account calls, and deposit / withdraw called on its accounts     *)
(* with any number, negative and zero included.                            *)
(***************************************************************************)
\* balance=0, the default of create_account and of Account.__init__
DefaultBalance == 0

\* Arguments of the direct calls: two identifiers, an opening balance, and a
\* negative, a zero and a positive amount.
CoreIds      == {"SHARATH", "atmuser2"}
CoreOpenings == {Unit}
CoreAmounts  == {-Unit, 0, Unit}

CoreInit ==
    /\ accounts = <<>>
    /\ created = <<>>
    /\ pc = "core"
    /\ account = None
    /\ last = NoCall
    /\ prev = <<>>

\* atm.create_account(user_id, pin, balance)
CoreCreate(user_id, pin, balance) ==
    /\ pc = "core"
    /\ accounts' = create_account(accounts, user_id, pin, balance)
    /\ created' = Store(created, user_id, [pin |-> pin, balance |-> balance])
    /\ last' = [NoCall EXCEPT !.op = "create_account", !.user_id = user_id,
                              !.pin = pin, !.amount = balance]
    /\ prev' = accounts
    /\ UNCHANGED <<pc, account>>

\* atm.create_account(user_id, pin)
CoreCreateDefault(user_id, pin) ==
    /\ pc = "core"
    /\ accounts' = create_account(accounts, user_id, pin, DefaultBalance)
    /\ created' = Store(created, user_id, [pin |-> pin, balance |-> DefaultBalance])
    /\ last' = [NoCall EXCEPT !.op = "create_account_default", !.user_id = user_id,
                              !.pin = pin]
    /\ prev' = accounts
    /\ UNCHANGED <<pc, account>>

\* atm.accounts[user_id].deposit(amount)
CoreDeposit(user_id, amount) ==
    /\ pc = "core"
    /\ user_id \in DOMAIN accounts
    /\ LET r == deposit(accounts[user_id], amount)
       IN  /\ accounts' = [accounts EXCEPT ![user_id] = r.self]
           /\ last' = [NoCall EXCEPT !.op = "deposit", !.user_id = user_id,
                                     !.amount = amount, !.msg = r.msg, !.shown = r.shown]
    /\ WithinBounds(accounts')
    /\ prev' = accounts
    /\ UNCHANGED <<created, pc, account>>

\* atm.accounts[user_id].withdraw(amount)
CoreWithdraw(user_id, amount) ==
    /\ pc = "core"
    /\ user_id \in DOMAIN accounts
    /\ LET r == withdraw(accounts[user_id], amount)
       IN  /\ accounts' = [accounts EXCEPT ![user_id] = r.self]
           /\ last' = [NoCall EXCEPT !.op = "withdraw", !.user_id = user_id,
                                     !.amount = amount, !.msg = r.msg, !.shown = r.shown]
    /\ WithinBounds(accounts')
    /\ prev' = accounts
    /\ UNCHANGED <<created, pc, account>>

CoreNext ==
    \/ \E u \in CoreIds, p \in Pins, b \in CoreOpenings : CoreCreate(u, p, b)
    \/ \E u \in CoreIds, p \in Pins : CoreCreateDefault(u, p)
    \/ \E u \in CoreIds, x \in CoreAmounts : CoreDeposit(u, x)
    \/ \E u \in CoreIds, x \in CoreAmounts : CoreWithdraw(u, x)

SpecCore == CoreInit /\ [][CoreNext]_vars

\* C13: create_account(id, pin, balance) stores under key id a fresh account with
\* identifier id, the given PIN, the given balance (0 when omitted) and an empty
\* log, replacing whatever was stored under id and leaving every other entry
\* unchanged; so every stored account's identifier equals its key.
C13_CreateAccount ==
    /\ last.op \in {"create_account", "create_account_default"} =>
          /\ DOMAIN accounts = DOMAIN prev \cup {Src}
          /\ accounts[Src].user_id = Src
          /\ accounts[Src].pin = last.pin
          /\ accounts[Src].balance = IF last.op = "create_account" THEN X ELSE 0
          /\ accounts[Src].transactions = <<>>
          /\ \A u \in DOMAIN prev \ {Src} : accounts[u] = prev[u]
    /\ \A u \in DOMAIN accounts : accounts[u].user_id = u

\* C13 witness: an account with a log and another balance and PIN has been
\* replaced, while another account with a log is stored.
C13_Witness ==
    /\ last.op = "create_account"
    /\ Src \in DOMAIN prev
    /\ prev[Src].transactions # <<>>
    /\ prev[Src].balance # X
    /\ prev[Src].pin # last.pin
    /\ \E u \in DOMAIN accounts \ {Src} : accounts[u].transactions # <<>>

\* C17 as stated: called directly, deposit(x) with any x adds x and logs
\* (Deposit, x), and withdraw(x) with x <= 0 ALWAYS takes the success branch,
\* subtracting x and logging (Withdraw, x).
C17_NoSignCheck_AsStated ==
    /\ last.op = "deposit" =>
          /\ accounts[Src].balance = prev[Src].balance + X
          /\ accounts[Src].transactions = Append(prev[Src].transactions, <<"Deposit", X>>)
    /\ (last.op = "withdraw" /\ X <= 0) =>
          /\ last.msg = "Withdrawal successful. New balance: $"
          /\ accounts[Src].balance = prev[Src].balance - X
          /\ accounts[Src].transactions = Append(prev[Src].transactions, <<"Withdraw", X>>)

\* C17 amended: deposit as stated; withdraw(x) with x <= 0 takes the success
\* branch exactly when x <= balance, hence always on a non-negative balance; on
\* a balance below x (a negative one) it reports 'Insufficient balance' and
\* changes nothing.
C17_NoSignCheck ==
    /\ last.op = "deposit" =>
          /\ accounts[Src].balance = prev[Src].balance + X
          /\ accounts[Src].transactions = Append(prev[Src].transactions, <<"Deposit", X>>)
    /\ (last.op = "withdraw" /\ X <= 0) =>
          /\ prev[Src].balance >= 0 => last.msg = "Withdrawal successful. New balance: $"
          /\ (last.msg = "Withdrawal successful. New balance: $") <=> (X <= prev[Src].balance)
          /\ last.msg = "Withdrawal successful. New balance: $" =>
                /\ accounts[Src].balance = prev[Src].balance - X
                /\ accounts[Src].transactions =
                       Append(prev[Src].transactions, <<"Withdraw", X>>)
          /\ last.msg # "Withdrawal successful. New balance: $" =>
                /\ last.msg = "Insufficient balance"
                /\ accounts[Src] = prev[Src]

\* C17 witness: a withdrawal of a negative amount has succeeded on an account
\* whose balance a negative deposit had made negative.
C17_Witness ==
    /\ last.op = "withdraw"
    /\ X < 0
    /\ last.msg = "Withdrawal successful. New balance: $"
    /\ prev[Src].balance < 0
    /\ accounts[Src].balance = prev[Src].balance - X

\* What the loop prints on a domain error.
ErrorMessages ==
    {"Invalid User ID or PIN. Please try again.", "Invalid choice. Please try again.",
     "Insufficient balance", "Incorrect current PIN.", "Target account not found.",
     "Invalid operation. Please choose a valid option."}

\* C14, on states: run() has ended only if the last thing done was choice '2';
\* after a failed access, an invalid main choice or option '6' the loop is at the
\* main menu; after insufficient balance, incorrect PIN, unknown target or an
\* invalid operation it is still in the account menu.
C14_State ==
    /\ pc \in {"main", "menu", "done"}
    /\ (pc = "done") <=> (last.op = "quit")
    /\ last.msg \in ErrorMessages => pc \in {"main", "menu"}
    /\ (last.op = "access_account" /\ last.returned = None) => pc = "main"
    /\ last.op \in {"invalid_choice", "leave"} => pc = "main"
    /\ (\/ last.msg \in {"Insufficient balance", "Incorrect current PIN."}
        \/ last.op \in {"target_not_found", "invalid_operation"}) => pc = "menu"

\* C14, on steps: the step that ends run() is taken at the main menu and is
\* choice '2'.
C14_Step ==
    (pc # "done" /\ pc' = "done") => (pc = "main" /\ last'.op = "quit")

\* C14: in the menu loop the process terminates only through choice '2' at the
\* main menu; no domain error ends it, and option '6' and a failed access return
\* to the main menu.
C14_OnlyQuitEnds == []C14_State /\ [][C14_Step]_vars

\* C14 witness: run() has ended by choice '2' after operations were performed.
C14_Witness ==
    /\ pc = "done"
    /\ last.op = "quit"
    /\ \E u \in DOMAIN accounts : Len(accounts[u].transactions) >= 2

(***************************************************************************)
(* The menu loop with every turn of get_amount's loop as a step of its     *)
(* own.  pc is then also one of the three places get_amount is called      *)
(* from: "amount_withdraw", "amount_deposit", "amount_transfer"; while     *)
(* get_amount runs, last is that call, last.target the target_id the       *)
(* transfer was chosen with, last.msg what the last turn printed and       *)
(* last.amount the number it read.                                         *)
(***************************************************************************)
AmountPrompts == {"amount_withdraw", "amount_deposit", "amount_transfer"}

\* operation '2': amount = self.get_amount("withdraw") starts
PromptWithdraw ==
    /\ pc = "menu"
    /\ pc' = "amount_withdraw"
    /\ last' = [NoCall EXCEPT !.op = "get_amount", !.user_id = account]
    /\ prev' = accounts
    /\ UNCHANGED <<accounts, created, account>>

\* operation '3': amount = self.get_amount("deposit") starts
PromptDeposit ==
    /\ pc = "menu"
    /\ pc' = "amount_deposit"
    /\ last' = [NoCall EXCEPT !.op = "get_amount", !.user_id = account]
    /\ prev' = accounts
    /\ UNCHANGED <<accounts, created, account>>

\* operation '4' with a target_id that is in self.accounts:
\* amount = self.get_amount("transfer") starts
PromptTransfer(target_id) ==
    /\ pc = "menu"
    /\ target_id \in DOMAIN accounts
    /\ pc' = "amount_transfer"
    /\ last' = [NoCall EXCEPT !.op = "get_amount", !.user_id = account,
                              !.target = target_id]
    /\ prev' = accounts
    /\ UNCHANGED <<accounts, created, account>>

\* a turn of get_amount's loop that does not return: it prints and prompts again
PromptRejected(inp) ==
    /\ pc \in AmountPrompts
    /\ ~get_amount(<<inp>>).returned
    /\ last' = [last EXCEPT !.msg = get_amount(<<inp>>).printed[1],
                            !.amount = inp.value]
    /\ prev' = accounts
    /\ UNCHANGED <<accounts, created, pc, account>>

\* get_amount returns; print(account.withdraw(amount))
PromptedWithdraw(inp) ==
    /\ pc = "amount_withdraw"
    /\ get_amount(<<inp>>).returned
    /\ LET amount == get_amount(<<inp>>).amount
           r == withdraw(accounts[account], amount)
       IN  /\ accounts' = [accounts EXCEPT ![account] = r.self]
           /\ last' = [NoCall EXCEPT !.op = "withdraw", !.user_id = account,
                                     !.amount = amount, !.msg = r.msg, !.shown = r.shown]
    /\ WithinBounds(accounts')
    /\ prev' = accounts
    /\ pc' = "menu"
    /\ UNCHANGED <<created, account>>

\* get_amount returns; print(account.deposit(amount))
PromptedDeposit(inp) ==
    /\ pc = "amount_deposit"
    /\ get_amount(<<inp>>).returned
    /\ LET amount == get_amount(<<inp>>).amount
           r == deposit(accounts[account], amount)
       IN  /\ accounts' = [accounts EXCEPT ![account] = r.self]
           /\ last' = [NoCall EXCEPT !.op = "deposit", !.user_id = account,
                                     !.amount = amount, !.msg = r.msg, !.shown = r.shown]
    /\ WithinBounds(accounts')
    /\ prev' = accounts
    /\ pc' = "menu"
    /\ UNCHANGED <<created, account>>

\* get_amount returns; print(account.transfer(self.accounts[target_id], amount))
PromptedTransfer(inp) ==
    /\ pc = "amount_transfer"
    /\ get_amount(<<inp>>).returned
    /\ LET amount == get_amount(<<inp>>).amount
           r == transfer(accounts, account, last.target, amount)
       IN  /\ accounts' = r.accounts
           /\ last' = [NoCall EXCEPT !.op = "transfer", !.user_id = account,
                                     !.target = last.target, !.amount = amount,
                                     !.msg = r.msg, !.shown = r.shown]
    /\ WithinBounds(accounts')
    /\ prev' = accounts
    /\ pc' = "menu"
    /\ UNCHANGED <<created, account>>

NextPrompt ==
    \/ \E u \in UserIds, p \in Pins : MainAccess(u, p)
    \/ MainQuit
    \/ MainInvalid
    \/ MenuHistory
    \/ PromptWithdraw
    \/ PromptDeposit
    \/ \E t \in UserIds : PromptTransfer(t)
    \/ \E t \in UserIds : MenuTransferNotFound(t)
    \/ \E inp \in AmountInputs : PromptRejected(inp)
    \/ \E inp \in AmountInputs : PromptedWithdraw(inp)
    \/ \E inp \in AmountInputs : PromptedDeposit(inp)
    \/ \E inp \in AmountInputs : PromptedTransfer(inp)
    \/ \E o \in Pins, n \in Pins : MenuChangePin(o, n)
    \/ MenuQuit
    \/ MenuInvalid

SpecPrompt == Init /\ [][NextPrompt]_vars

\* An input that a turn of get_amount must not return: not a number, or a
\* number that is not > 0.
Unacceptable(inp) == ~inp.numeric \/ inp.value <= 0

\* get_amount as a function of what is typed: it returns exactly at the first
\* number > 0, with that number, having printed one message per earlier input;
\* as long as nothing acceptable is typed it has not returned.
GetAmountContract ==
    \A typed \in Typed :
        LET r == get_amount(typed)
        IN  /\ r.returned <=> \E i \in 1..Len(typed) : ~Unacceptable(typed[i])
            /\ r.returned =>
                  /\ r.amount > 0
                  /\ \E i \in 1..Len(typed) :
                        /\ typed[i].numeric /\ typed[i].value = r.amount
                        /\ \A j \in 1..(i - 1) : Unacceptable(typed[j])
                        /\ Len(r.printed) = i - 1
            /\ ~r.returned => Len(r.printed) = Len(typed)

\* C15: every amount passed to deposit, withdraw or transfer is strictly
\* positive; get_amount returns only on a number > 0, and a turn that reads
\* anything else prompts again: the program stays at the same prompt, no
\* account operation is called and no account changes.
C15_PositiveAmounts ==
    /\ GetAmountContract
    /\ last.op \in {"withdraw", "deposit", "transfer"} =>
          /\ X > 0
          /\ pc = "menu"
    /\ pc \in AmountPrompts =>
          /\ last.op = "get_amount"
          /\ accounts = prev
          /\ last.msg \in {"", "Please enter a positive amount.",
                           "Invalid input. Please enter a valid number."}
          /\ last.msg = "Please enter a positive amount." => X <= 0
    /\ last.op = "get_amount" => pc \in AmountPrompts

\* C15 witness: a negative number typed at the transfer prompt has been
\* rejected, on an account that has made operations before.
C15_Witness ==
    /\ pc = "amount_transfer"
    /\ last.msg = "Please enter a positive amount."
    /\ X < 0
    /\ accounts[account].transactions # <<>>

\* C16: a transfer chosen with a target identifier that is not a key of the
\* registry prints 'Target account not found.' and is back at the account menu:
\* no amount is prompted for, transfer is not called, no account changes.  The
\* amount prompt of a transfer is reached only with a target that is a key.
C16_TargetNotFound ==
    /\ last.op = "target_not_found" =>
          /\ Tgt \notin DOMAIN accounts
          /\ last.msg = "Target account not found."
          /\ pc = "menu"
          /\ accounts = prev
    /\ pc = "amount_transfer" => Tgt \in DOMAIN accounts
    /\ last.op = "transfer" => Tgt \in DOMAIN prev

\* C16 witness: an unknown target has been refused in a session that had made
\* a transfer to a known one.
C16_Witness ==
    /\ last.op = "target_not_found"
    /\ Tgt = "ghost"
    /\ CountKind(accounts[Src].transactions, "Transfer") >= 1

\* Account u went from `before` to `after` by receiving a deposit of x and
\* nothing else.
ReceivedDeposit(before, after, x) ==
    after = [before EXCEPT !.balance = @ + x,
                           !.transactions = Append(@, <<"Deposit", x>>)]

\* C18, on states: the account menu is open only on a stored account; history,
\* withdraw, deposit, change_pin and the source side of a transfer act on the
\* session's account; an account that is not the session's account changes only
\* as the target of a transfer, by receiving the deposit; a granted access made
\* the account whose PIN was typed the session's account, a refused one left
\* no session account and changed nothing.
C18_State ==
    /\ pc = "menu" => account \in DOMAIN accounts
    /\ last.op \in {"get_transaction_history", "withdraw", "deposit", "transfer",
                    "change_pin"} =>
          /\ Src = account
          /\ pc = "menu"
    /\ \A u \in DOMAIN accounts :
          accounts[u] # prev[u] =>
              /\ last.op \in {"withdraw", "deposit", "transfer", "change_pin"}
              /\ \/ u = account
                 \/ /\ last.op = "transfer"
                    /\ u = Tgt
                    /\ ReceivedDeposit(prev[u], accounts[u], X)
    /\ last.op = "access_account" =>
          /\ account = last.returned
          /\ accounts = prev
          /\ last.returned # None =>
                /\ pc = "menu"
                /\ last.returned = Src
                /\ check_pin(accounts[account], last.pin)
          /\ last.returned = None => pc = "main"

\* C18, on steps: the session's account is set only by an access attempt at the
\* main menu, to what access_account returned; at the main menu (so from a
\* refused access to the next attempt) no account changes; in the account menu
\* a step changes only the session's account and, by a deposit, a transfer's
\* target.
C18_Step ==
    /\ account' # account =>
          /\ pc = "main"
          /\ last'.op = "access_account"
          /\ account' = last'.returned
    /\ pc = "main" => accounts' = accounts
    /\ accounts' # accounts =>
          /\ pc = "menu" /\ account' = account
          /\ DOMAIN accounts' = DOMAIN accounts
          /\ \A u \in DOMAIN accounts :
                accounts'[u] # accounts[u] =>
                    \/ u = account
                    \/ /\ last'.op = "transfer"
                       /\ u = last'.target
                       /\ ReceivedDeposit(accounts[u], accounts'[u], last'.amount)

\* C18: authorization in the menu loop.  Within a session the operations act
\* only on the account for which the most recent access succeeded; any other
\* account changes only by receiving a transfer's deposit; after a refused
\* access nothing changes before the next access attempt.
C18_Authorization == []C18_State /\ [][C18_Step]_vars

\* C18 witness: in SHARATH's session a transfer has credited atmuser2, whose
\* PIN is still the one it was created with and was not the one typed.
C18_Witness ==
    /\ last.op = "transfer"
    /\ account = "SHARATH"
    /\ Tgt = "atmuser2"
    /\ accounts[Tgt].balance > prev[Tgt].balance
    /\ accounts[Tgt].pin = created[Tgt].pin
    /\ accounts[account].pin # accounts[Tgt].pin

====
